---- MODULE Spec2Model ----
(* Model of mariner/printer.py (ChiTuPrinter, the version with line-number *)
(* sequencing and the ChiTu 4.4.3 fallback).  Text is modelled as a tuple  *)
(* of one-character strings so that substring tests and the regular        *)
(* expressions of the source are computed, not assumed.                    *)
EXTENDS Integers, Sequences, FiniteSets, TLC

VARIABLES lineCount, exclude4000, printer_Status, printName, totalbyteCount,
          timeout, isOpen, rx, obs, started, pausing

vars == <<lineCount, exclude4000, printer_Status, printName, totalbyteCount,
          timeout, isOpen, rx, obs, started, pausing>>

(***************************************************************************)
(* Bounds                                                                  *)
(***************************************************************************)
\* largest line number the firmware uses in a numbered line
MaxLine == 3
\* most lines the firmware sends in reply to one command
MaxResp == 2
\* most unread lines the transport buffers
MaxRx == 2
\* most lines one call of _read_response is given when checked alone
MaxItems == 3
\* largest file size (total_bytes) the firmware reports; the position it
\* reports (current_byte) may pass it by one
MaxByte == 1

(***************************************************************************)
(* Text                                                                    *)
(***************************************************************************)
Digits == <<"0", "1", "2", "3", "4", "5", "6", "7", "8", "9">>
DigitChars == {Digits[i] : i \in 1..10}
DigitVal(c) == (CHOOSE i \in 1..10 : Digits[i] = c) - 1

RECURSIVE FormatNat(_)
\* str(n) for a natural number
FormatNat(n) == IF n < 10 THEN <<Digits[n + 1]>>
                ELSE FormatNat(n \div 10) \o <<Digits[(n % 10) + 1]>>

RECURSIVE IntOf(_)
\* int(s) for a string of decimal digits
IntOf(s) == IF Len(s) = 0 THEN 0
            ELSE 10 * IntOf(SubSeq(s, 1, Len(s) - 1)) + DigitVal(s[Len(s)])

\* s[i:] starts with p
StartsAt(s, i, p) == /\ i + Len(p) - 1 <= Len(s)
                     /\ \A k \in 1..Len(p) : s[i + k - 1] = p[k]

\* Python's  p in s
Contains(s, p) == \E i \in 1..(Len(s) + 1) : StartsAt(s, i, p)

\* length of the longest run of characters of class cls starting at s[i]
RunLen(s, i, cls) ==
    LET ends == {j \in (i - 1)..Len(s) : \A k \in i..j : s[k] \in cls}
    IN  (CHOOSE j \in ends : \A j2 \in ends : j2 <= j) - i + 1

CRLF == <<"\r", "\n">>
S_ok == <<"o", "k">>
S_Er == <<"E", "r">>
S_SD == <<"S", "D">>
S_N == <<" ", "N", ":">>
S_not_printing == <<"n", "o", "t", " ", "p", "r", "i", "n", "t", "i", "n", "g",
                    " ", "n", "o", "w", "!">>
S_byte == <<"b", "y", "t", "e", " ">>
S_File_opened == <<"F", "i", "l", "e", " ", "o", "p", "e", "n", "e", "d">>
S_File_selected == <<"F", "i", "l", "e", " ", "s", "e", "l", "e", "c", "t",
                     "e", "d">>


(***************************************************************************)
(* Exceptions and values                                                   *)
(***************************************************************************)
NoExc == [kind |-> "none"]
UnexpectedPrinterResponse(data) ==
    [kind |-> "UnexpectedPrinterResponse", data |-> data]
UnexpectedResponseLineNumber(got, expected) ==
    [kind |-> "UnexpectedResponseLineNumber", got |-> got, expected |-> expected]
ValueError == [kind |-> "ValueError"]

\* timeout_secs = None
None == -1
\* serial.Serial(timeout=0.1), in tenths of a second
DefaultTimeout == 1
\* timeout_secs=2.0 of start_printing, in tenths of a second
StartTimeout == 20

(***************************************************************************)
(* _obtain_line_number                                                     *)
(***************************************************************************)
NumClass == DigitChars \cup {"."}

\* the tail of the pattern once the run r of [0-9.] after "N:" is known
LineNumberTail(s, r) ==
    IF r >= 1 /\ StartsAt(s, 6 + r, CRLF)
    THEN [matched |-> TRUE, g1 |-> SubSeq(s, 1, 2), g2 |-> SubSeq(s, 6, 5 + r)]
    ELSE [matched |-> FALSE, g1 |-> <<>>, g2 |-> <<>>]

\* re.search("^([ESo][rDk]).N:([0-9.]+)\r\n", s): the two groups, or no match
LineNumberMatch(s) ==
    IF /\ Len(s) >= 6
       /\ s[1] \in {"E", "S", "o"}
       /\ s[2] \in {"r", "D", "k"}
       /\ s[3] # "\n"
       /\ s[4] = "N"
       /\ s[5] = ":"
    THEN LineNumberTail(s, RunLen(s, 6, NumClass))
    ELSE [matched |-> FALSE, g1 |-> <<>>, g2 |-> <<>>]

\* seeded fault: the counter advances for every tag, not only for "ok"
CompareLineNumber_AnyTag(lc, tag, responseLineCount) ==
    IF responseLineCount # lc
    THEN [lineCount |-> responseLineCount + 1,
          exc |-> UnexpectedResponseLineNumber(responseLineCount, lc),
          ret |-> <<>>]
    ELSE [lineCount |-> lc + 1, exc |-> NoExc, ret |-> tag]

\* seeded fault: a mismatch raises without adopting the observed number
CompareLineNumber_NoResync(lc, tag, responseLineCount) ==
    IF responseLineCount # lc
    THEN [lineCount |-> lc,
          exc |-> UnexpectedResponseLineNumber(responseLineCount, lc),
          ret |-> <<>>]
    ELSE [lineCount |-> IF tag = S_ok THEN lc + 1 ELSE lc,
          exc |-> NoExc,
          ret |-> tag]

\* lines 445-456: the comparison with _lineCount, for the line number
\* responseLineCount and the tag of the parsed line
CompareLineNumber(lc, tag, responseLineCount) ==
    IF responseLineCount # lc
    THEN [lineCount |-> responseLineCount + 1,
          exc |-> UnexpectedResponseLineNumber(responseLineCount, lc),
          ret |-> <<>>]
    ELSE [lineCount |-> IF tag = S_ok THEN lc + 1 ELSE lc,
          exc |-> NoExc,
          ret |-> tag]

\* the method once the pattern was applied; int() rejects a dot
ObtainFromMatch(lc, response, parsedResponse) ==
    IF ~parsedResponse.matched
    THEN [lineCount |-> lc, exc |-> UnexpectedPrinterResponse(response),
          ret |-> <<>>]
    ELSE IF \E k \in 1..Len(parsedResponse.g2) : parsedResponse.g2[k] = "."
    THEN [lineCount |-> lc, exc |-> ValueError, ret |-> <<>>]
    ELSE CompareLineNumber(lc, parsedResponse.g1, IntOf(parsedResponse.g2))

\* the method on (self._lineCount, response): the new _lineCount, the
\* exception raised (if any) and the returned tag
_obtain_line_number(lc, response) ==
    ObtainFromMatch(lc, response, LineNumberMatch(response))

(***************************************************************************)
(* _send, _read_response, _send_and_read                                   *)
(* self is the engine: its fields, the transport's unread lines and read   *)
(* timeout, and the record of what the running operation wrote and read.   *)
(***************************************************************************)
SerialException == [kind |-> "SerialException"]

\* serial write + flush; reply is what the firmware sends back for it
_send(self, data, reply) ==
    [self EXCEPT !.wrote = Append(@, data),
                 !.stale = @ \/ self.rx # <<>>,
                 !.rx = @ \o reply]

RECURSIVE ReadLoop(_, _, _)
RECURSIVE ReadNumbered(_, _, _)

\* seeded fault: a data line is put in front of what was accumulated
ReadLoop_Prepend(rxq, lc, responseData) ==
    IF rxq = <<>>
    THEN [rx |-> rxq, lineCount |-> lc, responseData |-> responseData,
          exc |-> NoExc]
    ELSE IF Head(rxq) = S_ok
    THEN ReadLoop(Tail(rxq), lc, responseData)
    ELSE IF Contains(Head(rxq), S_N)
    THEN ReadNumbered(Tail(rxq), responseData, _obtain_line_number(lc, Head(rxq)))
    ELSE ReadLoop(Tail(rxq), lc, Head(rxq) \o responseData)

\* the while loop of _read_response: rxq is what readline has still to
\* return, an empty rxq is the timeout
ReadLoop(rxq, lc, responseData) ==
    IF rxq = <<>>
    THEN [rx |-> rxq, lineCount |-> lc, responseData |-> responseData,
          exc |-> NoExc]
    ELSE IF Head(rxq) = S_ok
    THEN ReadLoop(Tail(rxq), lc, responseData)
    ELSE IF Contains(Head(rxq), S_N)
    THEN ReadNumbered(Tail(rxq), responseData, _obtain_line_number(lc, Head(rxq)))
    ELSE ReadLoop(Tail(rxq), lc, responseData \o Head(rxq))

\* line 485: the loop after _obtain_line_number ended as r
ReadNumbered(rest, responseData, r) ==
    IF r.exc.kind # "none"
    THEN [rx |-> rest, lineCount |-> r.lineCount,
          responseData |-> responseData, exc |-> r.exc]
    ELSE ReadLoop(rest, r.lineCount, responseData)

\* lines 474-476 and 495-502 around the loop, which ended as r; lines
\* records, read by read, what readline returned
ReadResult(self, timeout_secs, r) ==
    IF r.exc.kind # "none"
    THEN [self |-> [self EXCEPT !.rx = r.rx, !.lineCount = r.lineCount,
                                !.lines = Append(@, SubSeq(self.rx, 1,
                                                   Len(self.rx) - Len(r.rx))),
                                !.timeout = IF timeout_secs # None
                                            THEN timeout_secs ELSE @],
          exc |-> r.exc, response |-> <<>>]
    ELSE [self |-> [self EXCEPT !.rx = r.rx, !.lineCount = r.lineCount,
                                !.lines = Append(@, SubSeq(self.rx, 1,
                                                   Len(self.rx) - Len(r.rx)))],
          exc |-> NoExc,
          response |-> IF r.responseData = <<>> THEN S_ok ELSE r.responseData]

_read_response(self, timeout_secs) ==
    ReadResult(self, timeout_secs, ReadLoop(self.rx, self.lineCount, <<>>))

\* resps records what the call returned to the operation
Returned(r) ==
    IF r.exc.kind # "none" THEN r
    ELSE [r EXCEPT !.self.resps = Append(@, r.response)]

\* a closed port raises on write (pyserial)
_send_and_read(self, data, timeout_secs, reply) ==
    IF ~self.isOpen
    THEN [self |-> self, exc |-> SerialException, response |-> <<>>]
    ELSE Returned(_read_response(_send(self, data \o CRLF, reply), timeout_secs))

(***************************************************************************)
(* Patterns of the dispatcher                                              *)
(***************************************************************************)
NoMatch == [matched |-> FALSE, g |-> <<>>, end |-> 0]

\* the least element of a non-empty set of positions (re.search is leftmost)
Leftmost(ps) == CHOOSE i \in ps : \A j \in ps : i <= j

\* ([0-9]+)/([0-9]+): the second number, a run of r2 digits
TwoNumSecond(s, a, r1, r2) ==
    IF r2 >= 1
    THEN [matched |-> TRUE,
          g |-> <<SubSeq(s, a, a + r1 - 1), SubSeq(s, a + r1 + 1, a + r1 + r2)>>,
          end |-> a + r1 + 1 + r2]
    ELSE NoMatch

\* ([0-9]+)/([0-9]+) from position a: the first number, a run of r1 digits
TwoNumFirst(s, a, r1) ==
    IF r1 >= 1 /\ StartsAt(s, a + r1, <<"/">>)
    THEN TwoNumSecond(s, a, r1, RunLen(s, a + r1 + 1, DigitChars))
    ELSE NoMatch

\* prefix([0-9]+)/([0-9]+) matched at position i: the groups and the
\* position after the match
TwoNumAt(s, i, prefix) ==
    IF StartsAt(s, i, prefix)
    THEN TwoNumFirst(s, i + Len(prefix), RunLen(s, i + Len(prefix), DigitChars))
    ELSE NoMatch

\* /([0-9]+) after the two numbers m: the third number, a run of r3 digits
StatusThird(s, m, r3) ==
    IF r3 >= 1
    THEN [matched |-> TRUE, g |-> Append(m.g, SubSeq(s, m.end + 1, m.end + r3)),
          end |-> m.end + 1 + r3]
    ELSE NoMatch

StatusTail(s, m) ==
    IF m.matched /\ StartsAt(s, m.end, <<"/">>)
    THEN StatusThird(s, m, RunLen(s, m.end + 1, DigitChars))
    ELSE NoMatch

\* "D:([0-9]+)/([0-9]+)/([0-9]+)" matched at position i
StatusAt(s, i) == StatusTail(s, TwoNumAt(s, i, <<"D", ":">>))

StatusFirst(data, ps) == IF ps = {} THEN NoMatch ELSE StatusAt(data, Leftmost(ps))

\* re.search("D:([0-9]+)/([0-9]+)/([0-9]+)", data)
StatusMatch(data) ==
    StatusFirst(data, {i \in 1..Len(data) : StatusAt(data, i).matched})

ByteFirst(data, ps) ==
    IF ps = {} THEN NoMatch ELSE TwoNumAt(data, Leftmost(ps), S_byte)

\* re.search("byte ([0-9]+)/([0-9]+)", data)
ByteMatch(data) ==
    ByteFirst(data, {i \in 1..Len(data) : TwoNumAt(data, i, S_byte).matched})

\* length of the longest run of characters other than c starting at s[i]
RunLenNot(s, i, c) ==
    LET ends == {j \in (i - 1)..Len(s) : \A k \in i..j : s[k] # c}
    IN  (CHOOSE j \in ends : \A j2 \in ends : j2 <= j) - i + 1

S_ok_quote == <<"o", "k", " ", "'">>

\* '([^']+)'\r\n from position a: the name, a run of r characters
SelectedName(s, a, r) ==
    IF r >= 1 /\ StartsAt(s, a + r, <<"'">> \o CRLF)
    THEN [matched |-> TRUE, g |-> <<SubSeq(s, a, a + r - 1)>>, end |-> a + r + 3]
    ELSE NoMatch

\* "ok '([^']+)'\r\n" matched at position i
SelectedAt(s, i) ==
    IF StartsAt(s, i, S_ok_quote)
    THEN SelectedName(s, i + Len(S_ok_quote), RunLenNot(s, i + Len(S_ok_quote), "'"))
    ELSE NoMatch

SelectedFirst(data, ps) ==
    IF ps = {} THEN NoMatch ELSE SelectedAt(data, Leftmost(ps))

\* re.search("ok '([^']+)'\r\n", data)
SelectedMatch(data) ==
    SelectedFirst(data, {i \in 1..Len(data) : SelectedAt(data, i).matched})

Letters == {"a", "b", "c", "d", "e", "f", "g", "h", "i", "j", "k", "l", "m",
            "n", "o", "p", "q", "r", "s", "t", "u", "v", "w", "x", "y", "z",
            "A", "B", "C", "D", "E", "F", "G", "H", "I", "J", "K", "L", "M",
            "N", "O", "P", "Q", "R", "S", "T", "U", "V", "W", "X", "Y", "Z"}
WordClass == Letters \cup DigitChars \cup {"_", "."}

\* ([a-zA-Z0-9_.]+)\n$ from position 4: the token, a run of r characters;
\* $ also matches before a final newline
VersionToken(data, r) ==
    IF /\ r >= 1
       /\ StartsAt(data, 4 + r, <<"\n">>)
       /\ \/ Len(data) = 4 + r
          \/ Len(data) = 5 + r /\ data[5 + r] = "\n"
    THEN [matched |-> TRUE, g |-> <<SubSeq(data, 4, 3 + r)>>, end |-> 5 + r]
    ELSE NoMatch

\* re.search("^ok ([a-zA-Z0-9_.]+)\n$", data)
VersionMatch(data) ==
    IF StartsAt(data, 1, <<"o", "k", " ">>)
    THEN VersionToken(data, RunLen(data, 4, WordClass))
    ELSE NoMatch

\* Z:([0-9.]+) matched at position i
ZPosAt(data, i) ==
    IF StartsAt(data, i, <<"Z", ":">>) /\ RunLen(data, i + 2, NumClass) >= 1
    THEN [matched |-> TRUE,
          g |-> <<SubSeq(data, i + 2, i + 1 + RunLen(data, i + 2, NumClass))>>,
          end |-> i + 2 + RunLen(data, i + 2, NumClass)]
    ELSE NoMatch

ZPosFirst(data, ps) == IF ps = {} THEN NoMatch ELSE ZPosAt(data, Leftmost(ps))

\* re.search("Z:([0-9.]+)", data)
ZPosMatch(data) ==
    ZPosFirst(data, {i \in 1..Len(data) : ZPosAt(data, i).matched})

\* float(s) accepts s made of digits and dots when it has a digit and at
\* most one dot
IsFloat(s) == /\ \E k \in 1..Len(s) : s[k] \in DigitChars
              /\ Cardinality({k \in 1..Len(s) : s[k] = "."}) <= 1

\* re.sub("^/", "", s)
StripSlash(s) == IF Len(s) >= 1 /\ s[1] = "/" THEN Tail(s) ELSE s

\* os.path.basename(s)
Basename(s) ==
    LET slashes == {k \in 1..Len(s) : s[k] = "/"}
    IN  IF slashes = {} THEN s
        ELSE SubSeq(s, (CHOOSE k \in slashes : \A j \in slashes : j <= k) + 1, Len(s))

(***************************************************************************)
(* PrinterState, PrintStatus                                               *)
(***************************************************************************)
IDLE == "IDLE"
STARTING_PRINT == "STARTING_PRINT"
PRINTING == "PRINTING"
PAUSED == "PAUSED"
PrinterState == {IDLE, STARTING_PRINT, PRINTING, PAUSED}

\* the dataclass; an absent counter is None
PrintStatus(state, current_byte, total_bytes) ==
    [state |-> state, current_byte |-> current_byte, total_bytes |-> total_bytes]

(***************************************************************************)
(* Commands                                                                *)
(***************************************************************************)
M4002 == <<"M", "4", "0", "0", "2">>
M4000 == <<"M", "4", "0", "0", "0">>
M27 == <<"M", "2", "7">>
M114 == <<"M", "1", "1", "4">>
M110_N0 == <<"M", "1", "1", "0", " ", "N", "0">>
M4006 == <<"M", "4", "0", "0", "6">>
M23 == <<"M", "2", "3", " ", "/">>
G0_Z == <<"G", "0", " ", "Z">>
G28 == <<"G", "2", "8">>
M6030 == <<"M", "6", "0", "3", "0", " ", "'">>
M25 == <<"M", "2", "5">>
M24 == <<"M", "2", "4">>
M33 == <<"M", "3", "3">>
M112 == <<"M", "1", "1", "2">>
M6040 == <<"M", "6", "0", "4", "0", " ", "I">>

\* f"{z:.1f}" for z given in tenths
FormatTenths(z) ==
    LET a == IF z < 0 THEN -z ELSE z
    IN  (IF z < 0 THEN <<"-">> ELSE <<>>)
        \o FormatNat(a \div 10) \o <<".">> \o FormatNat(a % 10)

(***************************************************************************)
(* Dispatcher operations: each maps the engine and the firmware's replies  *)
(* to the engine afterwards, the exception raised and the value returned.  *)
(***************************************************************************)
Raise(self, exc) == [self |-> self, exc |-> exc, ret |-> <<>>]
Return(self, v) == [self |-> self, exc |-> NoExc, ret |-> v]
Raised(r) == r.exc.kind # "none"

\* an exchange that raised makes the operation raise the same
Propagate(r) == Raise(r.self, r.exc)

get_firmware_version_match(r, match) ==
    IF ~match.matched THEN Raise(r.self, UnexpectedPrinterResponse(r.response))
    ELSE Return(r.self, match.g[1])

get_firmware_version_read(r) ==
    IF Raised(r) THEN Propagate(r)
    ELSE get_firmware_version_match(r, VersionMatch(r.response))

get_firmware_version(self, reply) ==
    get_firmware_version_read(_send_and_read(self, M4002, None, reply))

\* the operations that return the response as it is
verbatim(r) == IF Raised(r) THEN Propagate(r) ELSE Return(r.self, r.response)

\* the operations that return nothing and check nothing
unchecked(r) == IF Raised(r) THEN Propagate(r) ELSE Return(r.self, <<>>)

get_state(self, reply) == verbatim(_send_and_read(self, M4000, None, reply))

\* lines 283-288
gps_primary_match(r, match) ==
    IF ~match.matched
    THEN Raise(r.self, UnexpectedPrinterResponse(r.response))
    ELSE Return([r.self EXCEPT !.locals =
                    [current_byte |-> IntOf(match.g[1]),
                     total_bytes |-> IntOf(match.g[2]),
                     is_paused |-> (match.g[3] = <<"1">>)]], <<>>)

\* seeded fault: the bare "ok" is set as the flag but still parsed for
\* the status fields, as get_selected_file does
gps_primary_read_StillParsed(r) ==
    IF Raised(r) THEN Propagate(r)
    ELSE gps_primary_match(
             [r EXCEPT !.self.exclude4000 = @ \/ r.response = S_ok],
             StatusMatch(r.response))

\* lines 274-288
gps_primary_read(r) ==
    IF Raised(r) THEN Propagate(r)
    ELSE IF r.response = S_ok
    THEN Return([r.self EXCEPT !.exclude4000 = TRUE], <<>>)
    ELSE gps_primary_match(r, StatusMatch(r.response))

\* lines 273-288: the primary command
gps_primary(self, reply) ==
    gps_primary_read(_send_and_read(self, M4000, None, reply))

\* lines 294-305
gps_fallback_match(r, match) ==
    IF ~match.matched
    THEN Raise(r.self, UnexpectedPrinterResponse(r.response))
    ELSE Return([r.self EXCEPT
                   !.totalbyteCount = IntOf(match.g[2]),
                   !.locals =
                     [current_byte |-> IntOf(match.g[1]),
                      total_bytes |-> IntOf(match.g[2]),
                      is_paused |-> (r.self.printer_Status.state = PAUSED)]],
                <<>>)

\* lines 293-307
gps_fallback_read(r) ==
    IF Raised(r) THEN Propagate(r)
    ELSE IF ~Contains(r.response, S_not_printing)
    THEN gps_fallback_match(r, ByteMatch(r.response))
    ELSE Return([r.self EXCEPT !.locals = [total_bytes |-> 0]], <<>>)

\* lines 291-307: the fallback command
gps_fallback(self, reply) ==
    gps_fallback_read(_send_and_read(self, M27, None, reply))

\* seeded fault: the pause flag is looked at before the position
gps_derive_PausedFirst(self) ==
    LET l == self.locals
    IN  IF l.total_bytes = 0
        THEN Return([self EXCEPT !.printer_Status = PrintStatus(IDLE, None, None)],
                    PrintStatus(IDLE, None, None))
        ELSE IF l.is_paused
        THEN Return([self EXCEPT !.printer_Status = PrintStatus(PAUSED, None, None)],
                    PrintStatus(PAUSED, l.current_byte, l.total_bytes))
        ELSE IF l.current_byte = 0
        THEN Return([self EXCEPT !.printer_Status =
                                   PrintStatus(STARTING_PRINT, None, None)],
                    PrintStatus(STARTING_PRINT, l.current_byte, l.total_bytes))
        ELSE Return([self EXCEPT !.printer_Status = PrintStatus(PRINTING, None, None)],
                    PrintStatus(PRINTING, l.current_byte, l.total_bytes))

\* seeded fault: Printing is returned without being written to the tracker
gps_derive_TrackerKept(self) ==
    LET l == self.locals
    IN  IF l.total_bytes = 0
        THEN Return([self EXCEPT !.printer_Status = PrintStatus(IDLE, None, None)],
                    PrintStatus(IDLE, None, None))
        ELSE IF l.current_byte = 0
        THEN Return([self EXCEPT !.printer_Status =
                                   PrintStatus(STARTING_PRINT, None, None)],
                    PrintStatus(STARTING_PRINT, l.current_byte, l.total_bytes))
        ELSE IF l.is_paused
        THEN Return([self EXCEPT !.printer_Status = PrintStatus(PAUSED, None, None)],
                    PrintStatus(PAUSED, l.current_byte, l.total_bytes))
        ELSE Return(self, PrintStatus(PRINTING, l.current_byte, l.total_bytes))

\* lines 309-327: the derivation from current_byte, total_bytes, is_paused
gps_derive(self) ==
    LET l == self.locals
    IN  IF l.total_bytes = 0
        THEN Return([self EXCEPT !.printer_Status = PrintStatus(IDLE, None, None)],
                    PrintStatus(IDLE, None, None))
        ELSE IF l.current_byte = 0
        THEN Return([self EXCEPT !.printer_Status =
                                   PrintStatus(STARTING_PRINT, None, None)],
                    PrintStatus(STARTING_PRINT, l.current_byte, l.total_bytes))
        ELSE IF l.is_paused
        THEN Return([self EXCEPT !.printer_Status = PrintStatus(PAUSED, None, None)],
                    PrintStatus(PAUSED, l.current_byte, l.total_bytes))
        ELSE Return([self EXCEPT !.printer_Status = PrintStatus(PRINTING, None, None)],
                    PrintStatus(PRINTING, l.current_byte, l.total_bytes))

\* line 309 on: b is the method up to there
gps_third(b) == IF Raised(b) THEN b ELSE gps_derive(b.self)

\* line 290 on: a is the method up to there
gps_second(a, reply2) ==
    gps_third(IF Raised(a) THEN a
              ELSE IF a.self.exclude4000 THEN gps_fallback(a.self, reply2)
              ELSE a)

\* reply1 answers M4000 and reply2 answers M27, when they are written
get_print_status(self, reply1, reply2) ==
    gps_second(IF ~self.exclude4000 THEN gps_primary(self, reply1)
               ELSE Return(self, <<>>),
               reply2)

get_z_pos_match(r, match) ==
    IF ~match.matched THEN Raise(r.self, UnexpectedPrinterResponse(r.response))
    ELSE IF ~IsFloat(match.g[1]) THEN Raise(r.self, ValueError)
    ELSE Return(r.self, match.g[1])

get_z_pos_read(r) ==
    IF Raised(r) THEN Propagate(r) ELSE get_z_pos_match(r, ZPosMatch(r.response))

\* the float returned is kept as its numeral
get_z_pos(self, reply) == get_z_pos_read(_send_and_read(self, M114, None, reply))

\* seeded fault: the command is sent without setting _lineCount first
reset_line_number_CounterKept(self, reply) ==
    unchecked(_send_and_read(self, M110_N0, None, reply))

reset_line_number(self, reply) ==
    unchecked(_send_and_read([self EXCEPT !.lineCount = 2], M110_N0, None, reply))

\* lines 352-356; s1 is the engine after lines 344-351
get_selected_file_match(s1, r, match) ==
    IF ~match.matched THEN Raise(s1, UnexpectedPrinterResponse(r.response))
    ELSE Return(s1, StripSlash(match.g[1]))

\* lines 344-356
get_selected_file_read(r) ==
    IF Raised(r) THEN Propagate(r)
    ELSE get_selected_file_match(
             IF r.response = S_ok THEN [r.self EXCEPT !.exclude4000 = TRUE]
             ELSE r.self,
             r, SelectedMatch(r.response))

\* line 369
get_selected_file_name(s1) == Return(s1, s1.printName)

\* found is the first entry of os.listdir whose size is _totalbyteCount,
\* or "" when there is none
get_selected_file(self, reply, found) ==
    IF ~self.exclude4000
    THEN get_selected_file_read(_send_and_read(self, M4006, None, reply))
    ELSE get_selected_file_name(IF self.printName = <<>> /\ found # <<>>
                                THEN [self EXCEPT !.printName = found]
                                ELSE self)

select_file_read(r) ==
    IF Raised(r) THEN Propagate(r)
    ELSE IF /\ ~Contains(r.response, S_File_opened)
            /\ ~Contains(r.response, S_File_selected)
    THEN Raise(r.self, UnexpectedPrinterResponse(r.response))
    ELSE Return(r.self, <<>>)

select_file(self, filename, reply) ==
    select_file_read(_send_and_read(self, M23 \o filename, None, reply))

\* the operations that require "ok" in the response
ok_required(r) ==
    IF Raised(r) THEN Propagate(r)
    ELSE IF ~Contains(r.response, S_ok)
    THEN Raise(r.self, UnexpectedPrinterResponse(r.response))
    ELSE Return(r.self, <<>>)

move_by(self, z_dist_mm, mm_per_min, reply) ==
    ok_required(_send_and_read(self,
                    G0_Z \o FormatTenths(z_dist_mm) \o <<" ", "F">>
                    \o FormatNat(mm_per_min) \o <<" ", "I", "0">>,
                    None, reply))

move_to(self, z_pos, reply) ==
    verbatim(_send_and_read(self, G0_Z \o FormatTenths(z_pos), None, reply))

move_to_home(self, reply) == ok_required(_send_and_read(self, G28, None, reply))

\* lines 401-409; a is select_file as it ended
start_printing_selected(a, filename, reply2) ==
    IF Raised(a) THEN a
    ELSE ok_required(_send_and_read([a.self EXCEPT !.printName = filename],
                                    M6030 \o Basename(filename) \o <<"'">>,
                                    StartTimeout, reply2))

\* reply1 answers M23 and reply2 answers M6030, when it is written
start_printing(self, filename, reply1, reply2) ==
    start_printing_selected(select_file(self, filename, reply1), filename, reply2)

\* line 416; r is lines 413-415 as they ended
pause_printing_done(r) ==
    IF Raised(r) THEN r
    ELSE Return([r.self EXCEPT !.printer_Status = PrintStatus(PAUSED, None, None)],
                <<>>)

pause_printing(self, reply) ==
    pause_printing_done(ok_required(_send_and_read(self, M25, None, reply)))

resume_printing(self, reply) == ok_required(_send_and_read(self, M24, None, reply))

stop_printing_read(r) ==
    IF Raised(r) THEN Propagate(r)
    ELSE IF Contains(r.response, S_Er)
    THEN Raise(r.self, UnexpectedPrinterResponse(r.response))
    ELSE Return(r.self, <<>>)

stop_printing(self, reply) ==
    stop_printing_read(_send_and_read(self, M33, None, reply))

stop_motors(self, reply) == ok_required(_send_and_read(self, M112, None, reply))

\* line 439; s1 is the engine after line 438.  Fire and forget: _send
\* without terminator, nothing is read
reboot_send(s1, delay_in_ms, reply) ==
    IF ~s1.isOpen THEN Raise(s1, SerialException)
    ELSE Return(_send(s1, M6040 \o FormatNat(delay_in_ms), reply), <<>>)

reboot(self, delay_in_ms, reply) ==
    reboot_send([self EXCEPT !.printName = <<>>], delay_in_ms, reply)

\* seeded fault: opening the port makes the engine try M4000 again
open_RetriesPrimary(self, reply) ==
    IF self.isOpen THEN Raise(self, SerialException)
    ELSE reset_line_number([self EXCEPT !.isOpen = TRUE, !.lineCount = 1,
                                        !.exclude4000 = FALSE], reply)

\* serial open raises when the port is open already
open(self, reply) ==
    IF self.isOpen THEN Raise(self, SerialException)
    ELSE reset_line_number([self EXCEPT !.isOpen = TRUE, !.lineCount = 1], reply)

\* closing the port drops what was not read
close(self) == Return([self EXCEPT !.isOpen = FALSE, !.rx = <<>>], <<>>)

(***************************************************************************)
(* The firmware: the lines it may send in reply to a command                *)
(***************************************************************************)
NumberedLine(tag, n) == tag \o S_N \o FormatNat(n) \o CRLF

StatusLine(c, t, p) ==
    <<"D", ":">> \o FormatNat(c) \o <<"/">> \o FormatNat(t) \o <<"/">>
    \o FormatNat(p) \o CRLF

ByteLine(c, t) == S_byte \o FormatNat(c) \o <<"/">> \o FormatNat(t) \o CRLF

SelectedLine(name) == S_ok_quote \o name \o <<"'">> \o CRLF

\* the filenames callers print, and the names the firmware reports
FileNames == {<<"a">>, <<"d", "/", "b">>}

\* heartbeats and numbered lines around the expected line number lc
FramingLines(lc) ==
    {S_ok}
    \cup {NumberedLine(S_ok, n) : n \in {lc, lc + 1} \cap 0..MaxLine}

S_Error == <<"E", "r", "r", "o", "r">>
GenericLines == {S_Error \o CRLF}
VersionLines == {<<"o", "k", " ", "V", "4", ".", "4", "\n">>}
StatusLines ==
    {StatusLine(c, t, p) : c \in 0..(MaxByte + 1), t \in 0..MaxByte, p \in 0..1}
FallbackLines == {S_not_printing \o CRLF, StatusLine(1, 1, 0)}
                 \cup {ByteLine(c, t) : c \in 0..(MaxByte + 1), t \in 0..MaxByte}
ZPosLines == {<<"Z", ":", "1", ".", "5">> \o CRLF, <<"Z", ":", ".">> \o CRLF}
SelectedLines == {SelectedLine(<<"a">>), SelectedLine(<<"/", "d", "/", "b">>)}
SelectLines == {S_File_opened \o CRLF, S_File_selected \o CRLF}
\* M33 may also be answered by a numbered error line
StopLines(lc) == GenericLines \cup {NumberedLine(S_Er, n) : n \in {lc} \cap 0..MaxLine}

SeqsUpTo(S, n) == UNION {[1..k -> S] : k \in 0..n}

\* a reply is at most one data line followed by framing lines: at most
\* MaxResp lines, and no more than the transport still buffers; behind
\* unread lines only framing lines are sent
Replies(self, dataLines) ==
    IF ~self.isOpen THEN {<<>>}
    ELSE LET n == IF MaxRx - Len(self.rx) < MaxResp THEN MaxRx - Len(self.rx)
                  ELSE MaxResp
             first == IF self.rx = <<>> THEN dataLines ELSE {}
         IN  {r \in SeqsUpTo(FramingLines(self.lineCount) \cup first, n) :
                 \A k \in 2..Len(r) : r[k] \in FramingLines(self.lineCount)}

\* the print-file directory: name and st_size of each entry
Directory == {[name |-> <<"a">>, st_size |-> 1],
              [name |-> <<"b">>, st_size |-> 1]}

\* what the scan of get_selected_file can find first: os.listdir has no order
FirstFound(size) ==
    IF \E f \in Directory : f.st_size = size
    THEN {f.name : f \in {g \in Directory : g.st_size = size}}
    ELSE {<<>>}

(***************************************************************************)
(* State machine                                                           *)
(***************************************************************************)
NoCall == [op |-> "none", arg |-> <<>>, wrote |-> <<>>, stale |-> FALSE,
           lines |-> <<>>, resps |-> <<>>, exc |-> NoExc, ret |-> <<>>, locals |-> <<>>]

\* class attributes and __init__ (lines 209-229): the port is not open yet
Init ==
    /\ lineCount = 1
    /\ exclude4000 = FALSE
    /\ printer_Status = PrintStatus(IDLE, None, None)
    /\ printName = <<>>
    /\ totalbyteCount = 0
    /\ timeout = DefaultTimeout
    /\ isOpen = FALSE
    /\ rx = <<>>
    /\ obs = NoCall
    /\ started = <<>>
    /\ pausing = "none"

\* the engine as an operation finds it
Self ==
    [lineCount |-> lineCount, exclude4000 |-> exclude4000,
     printer_Status |-> printer_Status, printName |-> printName,
     totalbyteCount |-> totalbyteCount, timeout |-> timeout,
     isOpen |-> isOpen, rx |-> rx,
     wrote |-> <<>>, stale |-> FALSE, lines |-> <<>>, resps |-> <<>>,
     locals |-> <<>>]

\* history of the calls: started is the filename given to the most recent
\* start_printing since construction or the last reboot, <<>> when there
\* was none; pausing is "paused" once pause_printing returned normally in
\* fallback mode, "resumed" once resume_printing returned normally after
\* that, until the next get_print_status
History(op, arg, r) ==
    /\ started' = IF op = "start_printing" THEN arg
                  ELSE IF op = "reboot" THEN <<>>
                  ELSE started
    /\ pausing' = IF op = "pause_printing" /\ ~Raised(r) /\ r.self.exclude4000
                  THEN "paused"
                  ELSE IF op = "resume_printing" /\ ~Raised(r) /\ pausing = "paused"
                  THEN "resumed"
                  ELSE IF op = "get_print_status" /\ pausing = "resumed"
                  THEN "none"
                  ELSE pausing

\* the operation op(arg) ended as r: the engine as it leaves it, and what
\* the caller observes
Done(op, arg, r) ==
    /\ History(op, arg, r)
    /\ lineCount' = r.self.lineCount
    /\ exclude4000' = r.self.exclude4000
    /\ printer_Status' = r.self.printer_Status
    /\ printName' = r.self.printName
    /\ totalbyteCount' = r.self.totalbyteCount
    /\ timeout' = r.self.timeout
    /\ isOpen' = r.self.isOpen
    /\ rx' = r.self.rx
    /\ obs' = [op |-> op, arg |-> arg, wrote |-> r.self.wrote,
               stale |-> r.self.stale, lines |-> r.self.lines,
               resps |-> r.self.resps,
               exc |-> r.exc, ret |-> r.ret, locals |-> r.self.locals]

\* one caller, one operation at a time
Ready == obs.op = "none"

Open ==
    /\ Ready
    /\ \E reply \in Replies([Self EXCEPT !.isOpen = TRUE, !.lineCount = 2],
                            GenericLines) :
          Done("open", <<>>, open(Self, reply))

Close == Ready /\ Done("close", <<>>, close(Self))

GetFirmwareVersion ==
    /\ Ready
    /\ \E reply \in Replies(Self, VersionLines) :
          Done("get_firmware_version", <<>>, get_firmware_version(Self, reply))

GetState ==
    /\ Ready
    /\ \E reply \in Replies(Self, StatusLines) :
          Done("get_state", <<>>, get_state(Self, reply))

GetPrintStatus ==
    /\ Ready
    /\ \E reply1 \in IF exclude4000 THEN {<<>>} ELSE Replies(Self, StatusLines) :
       \E a \in {IF exclude4000 THEN Return(Self, <<>>)
                 ELSE gps_primary(Self, reply1)} :
       \E reply2 \in IF ~Raised(a) /\ a.self.exclude4000
                     THEN Replies(a.self, FallbackLines) ELSE {<<>>} :
          Done("get_print_status", <<>>, get_print_status(Self, reply1, reply2))

GetZPos ==
    /\ Ready
    /\ \E reply \in Replies(Self, ZPosLines) :
          Done("get_z_pos", <<>>, get_z_pos(Self, reply))

ResetLineNumber ==
    /\ Ready
    /\ \E reply \in Replies([Self EXCEPT !.lineCount = 2], GenericLines) :
          Done("reset_line_number", <<>>, reset_line_number(Self, reply))

GetSelectedFile ==
    /\ Ready
    /\ \E reply \in IF exclude4000 THEN {<<>>} ELSE Replies(Self, SelectedLines) :
       \E found \in IF exclude4000 THEN FirstFound(totalbyteCount) ELSE {<<>>} :
          Done("get_selected_file", <<>>, get_selected_file(Self, reply, found))

SelectFile ==
    /\ Ready
    /\ \E filename \in FileNames :
       \E reply \in Replies(Self, SelectLines) :
          Done("select_file", filename, select_file(Self, filename, reply))

ZDistances == {-5}
FeedRates == {600}
ZPositions == {20}
RebootDelays == {0}

MoveBy ==
    /\ Ready
    /\ \E z \in ZDistances, f \in FeedRates :
       \E reply \in Replies(Self, GenericLines) :
          Done("move_by", <<z, f>>, move_by(Self, z, f, reply))

MoveTo ==
    /\ Ready
    /\ \E z \in ZPositions :
       \E reply \in Replies(Self, GenericLines) :
          Done("move_to", <<z>>, move_to(Self, z, reply))

MoveToHome ==
    /\ Ready
    /\ \E reply \in Replies(Self, GenericLines) :
          Done("move_to_home", <<>>, move_to_home(Self, reply))

StartPrinting ==
    /\ Ready
    /\ \E filename \in FileNames :
       \E reply1 \in Replies(Self, SelectLines) :
       \E a \in {select_file(Self, filename, reply1)} :
       \E reply2 \in IF ~Raised(a) THEN Replies(a.self, GenericLines) ELSE {<<>>} :
          Done("start_printing", filename,
               start_printing(Self, filename, reply1, reply2))

PausePrinting ==
    /\ Ready
    /\ \E reply \in Replies(Self, GenericLines) :
          Done("pause_printing", <<>>, pause_printing(Self, reply))

ResumePrinting ==
    /\ Ready
    /\ \E reply \in Replies(Self, GenericLines) :
          Done("resume_printing", <<>>, resume_printing(Self, reply))

StopPrinting ==
    /\ Ready
    /\ \E reply \in Replies(Self, StopLines(lineCount)) :
          Done("stop_printing", <<>>, stop_printing(Self, reply))

StopMotors ==
    /\ Ready
    /\ \E reply \in Replies(Self, GenericLines) :
          Done("stop_motors", <<>>, stop_motors(Self, reply))

Reboot ==
    /\ Ready
    /\ \E d \in RebootDelays :
       \E reply \in Replies(Self, GenericLines) :
          Done("reboot", <<d>>, reboot(Self, d, reply))

\* the caller takes the result or the exception and is ready to call again
CallerContinues ==
    /\ ~Ready
    /\ obs' = NoCall
    /\ UNCHANGED <<lineCount, exclude4000, printer_Status, printName,
                   totalbyteCount, timeout, isOpen, rx, started, pausing>>

Next ==
    \/ Open
    \/ Close
    \/ GetFirmwareVersion
    \/ GetState
    \/ GetPrintStatus
    \/ GetZPos
    \/ ResetLineNumber
    \/ GetSelectedFile
    \/ SelectFile
    \/ MoveBy
    \/ MoveTo
    \/ MoveToHome
    \/ StartPrinting
    \/ PausePrinting
    \/ ResumePrinting
    \/ StopPrinting
    \/ StopMotors
    \/ Reboot
    \/ CallerContinues

Spec == Init /\ [][Next]_vars

(***************************************************************************)
(* The line sequencer alone: every step is one call of                     *)
(* _obtain_line_number on a line the firmware may send.                    *)
(***************************************************************************)
Tags == {S_ok, S_Er, S_SD}

\* numbered lines with any tag and number, a numbered line without digits
\* and one with a dot in the number
SeqLines ==
    {NumberedLine(tag, n) : tag \in Tags, n \in 0..(MaxLine + 2)}
    \cup {S_ok \o S_N \o CRLF, S_ok \o S_N \o <<"1", ".">> \o CRLF}

SeqInit ==
    /\ lineCount \in 1..(MaxLine + 1)
    /\ exclude4000 = FALSE
    /\ printer_Status = PrintStatus(IDLE, None, None)
    /\ printName = <<>>
    /\ totalbyteCount = 0
    /\ timeout = DefaultTimeout
    /\ isOpen = TRUE
    /\ rx = <<>>
    /\ obs = NoCall
    /\ started = <<>>
    /\ pausing = "none"

ObtainLineNumber ==
    /\ \E response \in SeqLines :
       \E r \in {_obtain_line_number(lineCount, response)} :
          /\ lineCount' = r.lineCount
          /\ obs' = [NoCall EXCEPT !.op = "_obtain_line_number",
                                   !.arg = [response |-> response,
                                            lineCount |-> lineCount],
                                   !.exc = r.exc,
                                   !.ret = r.ret]
    /\ UNCHANGED <<exclude4000, printer_Status, printName, totalbyteCount,
                   timeout, isOpen, rx, started, pausing>>

SeqNext == ObtainLineNumber

SeqSpec == SeqInit /\ [][SeqNext]_vars

(***************************************************************************)
(* _read_response alone: one call on a sequence of lines, given by their   *)
(* kinds, followed by the empty read.                                      *)
(***************************************************************************)
\* "hb" heartbeat; "ok", "Er", "SD" numbered with the expected number;
\* "ahead" numbered ok with the number after the expected one; "d1", "d2"
\* unnumbered data
ItemKinds == {"hb", "ok", "Er", "SD", "ahead", "d1", "d2"}
DataText(kind) == IF kind = "d1" THEN StatusLine(1, 1, 0) ELSE S_Error \o CRLF

\* the line of one kind when the expected number is lc
ItemLine(kind, lc) ==
    CASE kind = "hb" -> S_ok
      [] kind = "ok" -> NumberedLine(S_ok, lc)
      [] kind = "Er" -> NumberedLine(S_Er, lc)
      [] kind = "SD" -> NumberedLine(S_SD, lc)
      [] kind = "ahead" -> NumberedLine(S_ok, lc + 1)
      [] OTHER -> DataText(kind)

RECURSIVE ItemLines(_, _)
\* the lines of a sequence of kinds: each acknowledgement with the expected
\* number makes the next number expected
ItemLines(items, lc) ==
    IF items = <<>> THEN <<>>
    ELSE <<ItemLine(Head(items), lc)>>
         \o ItemLines(Tail(items), IF Head(items) = "ok" THEN lc + 1 ELSE lc)

ReadInit ==
    /\ lineCount \in 1..MaxLine
    /\ exclude4000 = FALSE
    /\ printer_Status = PrintStatus(IDLE, None, None)
    /\ printName = <<>>
    /\ totalbyteCount = 0
    /\ timeout = DefaultTimeout
    /\ isOpen = TRUE
    /\ rx = <<>>
    /\ obs = NoCall
    /\ started = <<>>
    /\ pausing = "none"

ReadResponse ==
    /\ Ready
    /\ \E items \in SeqsUpTo(ItemKinds, MaxItems) :
       \E timeout_secs \in {None, StartTimeout} :
       \E r \in {_read_response([Self EXCEPT !.rx = ItemLines(items, lineCount)],
                                timeout_secs)} :
          /\ lineCount' = r.self.lineCount
          /\ rx' = r.self.rx
          /\ timeout' = r.self.timeout
          /\ obs' = [NoCall EXCEPT !.op = "_read_response",
                                   !.arg = [items |-> items,
                                            timeout_secs |-> timeout_secs],
                                   !.exc = r.exc,
                                   !.ret = r.response]
    /\ UNCHANGED <<exclude4000, printer_Status, printName, totalbyteCount,
                   isOpen, started, pausing>>

ReadNext == ReadResponse

ReadSpec == ReadInit /\ [][ReadNext]_vars

(***************************************************************************)
(* Properties                                                              *)
(***************************************************************************)
LineNumbers == 0..(MaxLine + 2)
Mismatch == "UnexpectedResponseLineNumber"

\* C1: a numbered line whose number equals _lineCount is accepted without
\* an exception, its tag is returned, and _lineCount grows by exactly 1 if
\* the tag is "ok" and stays as it is for "Er" and "SD".
C1_MatchingLineAccepted ==
    obs.op = "_obtain_line_number" =>
        \A tag \in Tags, n \in LineNumbers :
            (obs.arg.response = NumberedLine(tag, n) /\ n = obs.arg.lineCount)
            => /\ obs.exc.kind = "none"
               /\ obs.ret = tag
               /\ lineCount = IF tag = S_ok THEN n + 1 ELSE n

\* an acknowledgement with the expected number was accepted
C1_Witness ==
    /\ obs.op = "_obtain_line_number"
    /\ obs.arg.response = NumberedLine(S_ok, obs.arg.lineCount)
    /\ obs.exc.kind = "none"
    /\ lineCount = obs.arg.lineCount + 1

\* C2: a numbered line whose number n differs from _lineCount raises the
\* line-number mismatch carrying n and the expected number, and leaves
\* _lineCount = n + 1 whatever the tag; the same line once more raises the
\* mismatch again and leaves _lineCount = n + 1; an "ok" numbered n + 1
\* after a mismatch on n is accepted.
C2_MismatchResyncs ==
    [][\A tag \in Tags, n \in LineNumbers :
          (obs'.op = "_obtain_line_number"
           /\ obs'.arg.response = NumberedLine(tag, n))
          => /\ n # lineCount
                => /\ obs'.exc = UnexpectedResponseLineNumber(n, lineCount)
                   /\ lineCount' = n + 1
             /\ (obs.exc.kind = Mismatch /\ obs.arg.response = obs'.arg.response)
                => /\ obs'.exc.kind = Mismatch
                   /\ lineCount' = n + 1
             /\ (obs.exc.kind = Mismatch /\ tag = S_ok /\ n = obs.exc.got + 1)
                => /\ obs'.exc.kind = "none"
                   /\ lineCount' = n + 1]_vars

\* the same line mismatched a second time: the counter was n + 1 before
\* the call and is n + 1 after it
C2_Witness ==
    /\ obs.op = "_obtain_line_number"
    /\ obs.exc.kind = Mismatch
    /\ obs.arg.lineCount = obs.exc.got + 1
    /\ lineCount = obs.exc.got + 1

RECURSIVE DataOf(_)
\* the data lines of a sequence of kinds, concatenated in order
DataOf(items) ==
    IF items = <<>> THEN <<>>
    ELSE (IF Head(items) \in {"d1", "d2"} THEN DataText(Head(items)) ELSE <<>>)
         \o DataOf(Tail(items))

\* C9: on heartbeats, numbered lines with the expected number and data
\* lines, followed by the empty read, _read_response consumes every line
\* and returns the data lines concatenated in arrival order, each once, or
\* "ok" when there is no data line.
C9_ResponseIsDataInOrder ==
    (obs.op = "_read_response"
     /\ \A k \in 1..Len(obs.arg.items) : obs.arg.items[k] # "ahead")
    => /\ obs.exc.kind = "none"
       /\ rx = <<>>
       /\ obs.ret = IF DataOf(obs.arg.items) = <<>> THEN S_ok
                    ELSE DataOf(obs.arg.items)

\* two data lines around an acknowledgement came back in order
C9_Witness ==
    /\ obs.op = "_read_response"
    /\ obs.arg.items = <<"d2", "ok", "d1">>
    /\ obs.ret = DataText("d2") \o DataText("d1")

Sent(data) == data \o CRLF
PrimaryCommands == {Sent(M4000), Sent(M4006)}

\* C3: _exclude4000 starts false (extended commands supported); a call of
\* get_print_status or get_selected_file that finds it false and gets the
\* bare "ok" for its primary command sets it; once set it stays set in
\* every step, whatever the operation and the firmware's replies.
C3_FlagOneWay ==
    /\ exclude4000 = FALSE
    /\ [][/\ exclude4000 => exclude4000'
          /\ (/\ ~exclude4000
              /\ obs'.op \in {"get_print_status", "get_selected_file"}
              /\ Len(obs'.resps) >= 1
              /\ obs'.resps[1] = S_ok)
             => (obs'.wrote[1] \in PrimaryCommands /\ exclude4000')]_vars

\* the flag is set and the fallback command was just answered with text
\* of the primary dialect
C3_Witness ==
    /\ exclude4000
    /\ obs.op = "get_print_status"
    /\ obs.wrote = <<Sent(M27)>>
    /\ obs.resps = <<StatusLine(1, 1, 0)>>

\* C4 as claimed: once _exclude4000 is set, no operation writes M4000 or
\* M4006 again.
C4_NoPrimaryAfterFallback ==
    [][exclude4000 =>
          \A k \in 1..Len(obs'.wrote) : obs'.wrote[k] \notin PrimaryCommands]_vars

\* C5 as claimed: start_printing, whose second read overrides the timeout,
\* leaves the transport's read timeout as it found it, however it ends.
C5_TimeoutRestored ==
    [][obs'.op = "start_printing" => timeout' = timeout]_vars

\* the state derived from the three values, as the rule has it
RuleState(current_byte, total_bytes, is_paused) ==
    IF total_bytes = 0 THEN IDLE
    ELSE IF current_byte = 0 THEN STARTING_PRINT
    ELSE IF is_paused THEN PAUSED
    ELSE PRINTING

\* C6: the PrintStatus returned by get_print_status follows the rule on
\* current_byte, total_bytes and is_paused as the method obtained them:
\* Idle without counters when total_bytes is 0 whatever the rest, else
\* StartingPrint when current_byte is 0, else Paused when paused, else
\* Printing, every non-Idle result with both counters; and what the
\* method obtains from the primary response "D:c/t/p" is c, t and p = 1.
C6_StatusFollowsRule ==
    (obs.op = "get_print_status" /\ obs.exc.kind = "none")
    => /\ obs.locals.total_bytes = 0
          => obs.ret = PrintStatus(IDLE, None, None)
       /\ obs.locals.total_bytes # 0
          => obs.ret = PrintStatus(RuleState(obs.locals.current_byte,
                                             obs.locals.total_bytes,
                                             obs.locals.is_paused),
                                   obs.locals.current_byte,
                                   obs.locals.total_bytes)
       /\ \A c \in 0..(MaxByte + 1), t \in 0..MaxByte, p \in 0..1 :
             obs.resps = <<StatusLine(c, t, p)>>
             => /\ obs.ret.state = RuleState(c, t, p = 1)
                /\ t # 0 => (obs.ret.current_byte = c /\ obs.ret.total_bytes = t)

\* a paused print was reported from the primary response
C6_Witness ==
    /\ obs.op = "get_print_status"
    /\ obs.resps = <<StatusLine(1, 1, 1)>>
    /\ obs.ret = PrintStatus(PAUSED, 1, 1)

\* C7: when get_print_status writes M4000 and gets the bare "ok", the same
\* call sets _exclude4000, writes M27 once after M4000 and nothing else,
\* and ends as the M27 exchange decides: Idle when that response contains
\* "not printing now!", and an unexpected-response failure, if any, is
\* about the M27 response.
C7_FallbackInSameCall ==
    (/\ obs.op = "get_print_status"
     /\ Len(obs.wrote) >= 1
     /\ obs.wrote[1] = Sent(M4000)
     /\ Len(obs.resps) >= 1
     /\ obs.resps[1] = S_ok)
    => /\ exclude4000
       /\ obs.wrote = <<Sent(M4000), Sent(M27)>>
       /\ (obs.exc.kind = "UnexpectedPrinterResponse")
          => (Len(obs.resps) = 2 /\ obs.exc.data = obs.resps[2])
       /\ (Len(obs.resps) = 2 /\ Contains(obs.resps[2], S_not_printing))
          => (obs.exc.kind = "none" /\ obs.ret = PrintStatus(IDLE, None, None))

\* M4000 got the bare "ok", M27 got "not printing now!", the call
\* returned Idle
C7_Witness ==
    /\ obs.op = "get_print_status"
    /\ obs.wrote = <<Sent(M4000), Sent(M27)>>
    /\ obs.resps = <<S_ok, S_not_printing \o CRLF>>
    /\ obs.ret = PrintStatus(IDLE, None, None)
    /\ exclude4000

\* C8 as claimed: get_selected_file whose M4006 gets the bare "ok" does
\* not raise; it sets _exclude4000 and returns.
C8_SelectedFileFallsBack ==
    (/\ obs.op = "get_selected_file"
     /\ Len(obs.wrote) >= 1
     /\ obs.wrote[1] = Sent(M4006)
     /\ Len(obs.resps) >= 1
     /\ obs.resps[1] = S_ok)
    => (obs.exc.kind = "none" /\ exclude4000)

\* C10 as claimed: no command is written while lines sent earlier are
\* unread in the transport.
C10_NothingUnreadAtWrite == ~obs.stale

\* the text ends with the line terminator
Terminated(data) ==
    Len(data) >= 2 /\ SubSeq(data, Len(data) - 1, Len(data)) = CRLF

\* C11 as claimed: every command an operation writes to the transport,
\* reboot's included, ends with "\r\n".
C11_CommandsTerminated ==
    \A k \in 1..Len(obs.wrote) : Terminated(obs.wrote[k])

\* the call was get_selected_file in fallback mode and it returned
FallbackSelectedFile ==
    /\ obs.op = "get_selected_file"
    /\ obs.exc.kind = "none"
    /\ obs.wrote = <<>>
    /\ exclude4000

\* C12 as claimed: in fallback mode get_selected_file returns the filename
\* given to the most recent start_printing since construction or the last
\* reboot; when there was none it returns the name of a directory entry
\* whose size is the total_bytes observed last, and the empty string when
\* no entry has that size.
C12_FallbackName ==
    FallbackSelectedFile
    => IF started # <<>> THEN obs.ret = started
       ELSE IF \E f \in Directory : f.st_size = totalbyteCount
       THEN \E f \in Directory : f.st_size = totalbyteCount /\ obs.ret = f.name
       ELSE obs.ret = <<>>

\* C13 as claimed: a PrintStatus returned by get_print_status with
\* counters has current_byte <= total_bytes, whatever the firmware put in
\* the status fields.
C13_CurrentWithinTotal ==
    (/\ obs.op = "get_print_status"
     /\ obs.exc.kind = "none"
     /\ obs.ret.current_byte # None)
    => obs.ret.current_byte <= obs.ret.total_bytes

\* C14 as claimed: after open returns normally the session state has its
\* initial values, whatever ran on the instance before.
C14_OpenResetsSession ==
    (obs.op = "open" /\ obs.exc.kind = "none")
    => /\ ~exclude4000
       /\ printer_Status = PrintStatus(IDLE, None, None)
       /\ printName = <<>>
       /\ totalbyteCount = 0

\* how many of the lines are numbered acknowledgements
NumberedAcks(lines) ==
    Cardinality({k \in 1..Len(lines) :
                    /\ Contains(lines[k], S_N)
                    /\ LineNumberMatch(lines[k]).matched
                    /\ LineNumberMatch(lines[k]).g1 = S_ok})

\* nothing is written on a port that is not open, and what open writes is
\* the line reset alone
ResetWrittenFirst ==
    /\ (obs.op \notin {"none", "open", "close"} /\ ~isOpen) => obs.wrote = <<>>
    /\ obs.op = "open" => obs.wrote \in {<<>>, <<Sent(M110_N0)>>}

\* the first numbered line open reads is compared with 2
ResetBeforeRead ==
    (obs.op = "open" /\ obs.exc.kind = Mismatch)
    => obs.exc.expected
         = 2 + NumberedAcks(SubSeq(obs.lines[1], 1, Len(obs.lines[1]) - 1))

\* C15 as claimed: M110 N0 is the first command of a session, _lineCount
\* is 2 before it is written, and _lineCount is 2 after open returned
\* normally.
C15_OpenLeavesTwo ==
    /\ ResetWrittenFirst
    /\ ResetBeforeRead
    /\ (obs.op = "open" /\ obs.exc.kind = "none") => lineCount = 2

\* C15 amended: M110 N0 is the first command of a session and _lineCount
\* is 2 before it is written; after open returned normally _lineCount is
\* 2 plus the number of numbered acknowledgements read in the response to
\* M110 N0, so it is 2 only when that response carried none.
C15_OpenCountsFromTwo ==
    /\ ResetWrittenFirst
    /\ ResetBeforeRead
    /\ (obs.op = "open" /\ obs.exc.kind = "none")
       => lineCount = 2 + NumberedAcks(obs.lines[1])

\* open returned normally after the acknowledgement numbered 2
C15_Witness ==
    /\ obs.op = "open"
    /\ obs.exc.kind = "none"
    /\ obs.wrote = <<Sent(M110_N0)>>
    /\ obs.lines = <<<<NumberedLine(S_ok, 2)>>>>
    /\ lineCount = 3

\* C16 as claimed: in fallback mode, once pause_printing and then
\* resume_printing returned normally, the next get_print_status whose M27
\* response has 0 < current_byte and total_bytes > 0 returns Printing.
C16_ResumedIsPrinting ==
    [][(/\ pausing = "resumed"
        /\ obs'.op = "get_print_status"
        /\ obs'.exc.kind = "none"
        /\ obs'.wrote = <<Sent(M27)>>
        /\ obs'.locals.total_bytes > 0
        /\ obs'.locals.current_byte > 0)
       => obs'.ret.state = PRINTING]_vars

\* C17 as claimed: _exclude4000 is set only by a call whose primary
\* command was answered by a numbered acknowledgement; a read in which no
\* line arrived, or heartbeats only, does not set it.
C17_FallbackNeedsAnswer ==
    [][(~exclude4000 /\ exclude4000')
       => (obs'.lines # <<>> /\ NumberedAcks(obs'.lines[1]) >= 1)]_vars

\* C18: a get_print_status that returns normally, in either dialect,
\* leaves _printer_Status with the state it returned; one that raises
\* leaves _printer_Status as it was.
C18_TrackerFollowsResult ==
    [][obs'.op = "get_print_status"
       => IF obs'.exc.kind = "none"
          THEN printer_Status' = PrintStatus(obs'.ret.state, None, None)
          ELSE printer_Status' = printer_Status]_vars

\* Printing was derived from the M27 response and is in the tracker
C18_Witness ==
    /\ obs.op = "get_print_status"
    /\ obs.wrote = <<Sent(M27)>>
    /\ obs.ret = PrintStatus(PRINTING, 1, 1)
    /\ printer_Status = PrintStatus(PRINTING, None, None)

\* the two commands of start_printing(filename)
SelectCommand(filename) == Sent(M23 \o filename)
StartCommand(filename) == Sent(M6030 \o Basename(filename) \o <<"'">>)

\* C19 as claimed: start_printing writes M23 before M6030, writes no M6030
\* when the select response has neither marker, and when it raises an
\* unexpected-response failure, at either step, _printName is what it was
\* before the call.
C19_FailedStartKeepsName ==
    [][obs'.op = "start_printing"
       => /\ obs'.wrote \in {<<>>,
                             <<SelectCommand(obs'.arg)>>,
                             <<SelectCommand(obs'.arg), StartCommand(obs'.arg)>>}
          /\ Len(obs'.wrote) = 2
             => (\/ Contains(obs'.resps[1], S_File_opened)
                 \/ Contains(obs'.resps[1], S_File_selected))
          /\ obs'.exc.kind = "UnexpectedPrinterResponse"
             => printName' = printName]_vars

\* C20 as claimed: stop_printing returns normally only if no line read in
\* response to M33 carries "Er", be it a data line or a numbered error
\* line with the expected number.
C20_StopSeesErrorLines ==
    (obs.op = "stop_printing" /\ obs.exc.kind = "none" /\ obs.lines # <<>>)
    => \A k \in 1..Len(obs.lines[1]) : ~Contains(obs.lines[1][k], S_Er)

====
